---- MODULE Spec2Model ----
(***************************************************************************)
(* Resume intake: the upload pipeline of backend/app.py (save, extract,    *)
(* parse, upsert, one file after another on one Session), the candidate    *)
(* upsert and the entity resolver of backend/services.py over the schema   *)
(* of backend/db.py, and the analytics read.                               *)
(*                                                                         *)
(* Strings that the code trims are sequences of one-character strings, so  *)
(* that str.strip() is computed; every other string is a TLA+ string.      *)
(* An Optional value is a set with at most one element (None is {}).       *)
(***************************************************************************)
EXTENDS Integers, Sequences, FiniteSets, Bags, TLC

\* ------------------------------------------------------------------ bounds
\* Longest batch of files one upload request carries.
MaxFiles == 2

\* ------------------------------------------------------- program constants
\* services.py:98  len(resume_text) < 50
MinTextLen == 50
\* services.py:178  bins = [0, 2, 5, 10, 50]
bins == <<0, 2, 5, 10, 50>>
\* services.py:179
labels == <<"0-2 years", "2-5 years", "5-10 years", "10+ years">>

\* Candidate.id of a Candidate that is pending (not flushed): None.
NoId == 0

\* An Optional value is a set with at most one element: None is the empty set.
None == {}
Some(x) == {x}
the(o) == CHOOSE x \in o : TRUE

\* ---------------------------------------------------------------- helpers
Range(s) == {s[i] : i \in 1..Len(s)}

\* Python truthiness of an Optional[str]: None and the empty string are falsy.
\* Truthy is for a string held as a sequence of characters, TruthyStr for one
\* held as a TLA+ string.
Truthy(o) == o # None /\ the(o) # <<>>
TruthyStr(o) == o # None /\ the(o) # ""

IsSpace(c) == c = " "

RECURSIVE lstrip(_)
lstrip(s) == IF s # <<>> /\ IsSpace(Head(s)) THEN lstrip(Tail(s)) ELSE s

RECURSIVE rstrip(_)
rstrip(s) ==
    IF s # <<>> /\ IsSpace(s[Len(s)]) THEN rstrip(SubSeq(s, 1, Len(s) - 1)) ELSE s

\* str.strip(): leading and trailing whitespace removed.
strip(s) == rstrip(lstrip(s))

\* The index of the first element of seq satisfying Test, 0 when there is none
\* (Query.first() on a table kept in id order; ids are positions).
First(seq, Test(_)) ==
    IF \E i \in 1..Len(seq) : Test(seq[i])
    THEN CHOOSE i \in 1..Len(seq) : Test(seq[i]) /\ \A j \in 1..(i - 1) : ~Test(seq[j])
    ELSE 0

\* Query.delete(): the rows of a table satisfying Test are deleted.
DeleteWhere(table, Test(_)) ==
    [r \in {x \in DOMAIN table : ~Test(x)} |-> table[r]]

\* Session.add() of each row of rows, flushed into table.
RECURSIVE InsertAll(_, _)
InsertAll(table, rows) ==
    IF rows = <<>> THEN table
    ELSE InsertAll(table (+) SetToBag({Head(rows)}), Tail(rows))

\* ----------------------------------------------------------------- schema
\* db.py:33-98.  A graph is the content of the tables; a row's id is its
\* position in its table (reference entities and candidates are never deleted).
\* No code reads the id of a Degree or an Experience: these two tables are
\* bags of rows without their ids.
EmptyGraph ==
    [ candidates |-> <<>>,
      skills |-> <<>>, certifications |-> <<>>, companies |-> <<>>, colleges |-> <<>>,
      candidate_skills |-> {}, candidate_certifications |-> {},
      degrees |-> EmptyBag, experiences |-> EmptyBag ]

\* db.py:36-37, 52, 58, 64, 70: unique=True columns (NULLs do not collide),
\* nullable=False on Candidate.name.
Unique(seq) == \A i, j \in 1..Len(seq) : seq[i] = seq[j] => i = j

ConstraintViolation_name_not_unique(g) ==
    LET names  == [i \in 1..Len(g.candidates) |-> g.candidates[i].name]
        emails == SelectSeq([i \in 1..Len(g.candidates) |-> g.candidates[i].email],
                            LAMBDA e : e # None)
    IN  IF \E i \in 1..Len(names) : names[i] = None THEN "candidates.name is null"
        ELSE IF ~Unique(emails) THEN "candidates.email not unique"
        ELSE IF ~Unique(g.skills) THEN "skills.name not unique"
        ELSE IF ~Unique(g.certifications) THEN "certifications.name not unique"
        ELSE IF ~Unique(g.colleges) THEN "colleges.name not unique"
        ELSE IF ~Unique(g.companies) THEN "companies.name not unique"
        ELSE ""

ConstraintViolation(g) ==
    LET names  == [i \in 1..Len(g.candidates) |-> g.candidates[i].name]
        emails == SelectSeq([i \in 1..Len(g.candidates) |-> g.candidates[i].email],
                            LAMBDA e : e # None)
    IN  IF \E i \in 1..Len(names) : names[i] = None THEN "candidates.name is null"
        ELSE IF ~Unique(names) THEN "candidates.name not unique"
        ELSE IF ~Unique(emails) THEN "candidates.email not unique"
        ELSE IF ~Unique(g.skills) THEN "skills.name not unique"
        ELSE IF ~Unique(g.certifications) THEN "certifications.name not unique"
        ELSE IF ~Unique(g.colleges) THEN "colleges.name not unique"
        ELSE IF ~Unique(g.companies) THEN "companies.name not unique"
        ELSE ""

\* ------------------------------------------------------- entity resolver
\* services.py:151-166.  table: the committed rows of the model class (names in
\* id order); new: the names of the instances of that class in db.new, in the
\* order they were added.  A pending instance is referred to by the id the
\* flush will give it: Len(table) + its position in new.
get_or_create_no_commit_always_create(table, new, name) ==
    [new |-> Append(new, name), ref |-> Len(table) + Len(new) + 1]

get_or_create_no_commit_skip_pending(table, new, name) ==
    LET found == First(table, LAMBDA n : n = name)
    IN  IF found # 0 THEN [new |-> new, ref |-> found]
        ELSE [new |-> Append(new, name), ref |-> Len(table) + Len(new) + 1]

get_or_create_no_commit(table, new, name) ==
    LET pending == First(new, LAMBDA n : n = name)
        found   == First(table, LAMBDA n : n = name)
    IN  IF pending # 0 THEN [new |-> new, ref |-> Len(table) + pending]
        ELSE IF found # 0 THEN [new |-> new, ref |-> found]
        ELSE [new |-> Append(new, name), ref |-> Len(table) + Len(new) + 1]

\* The loops of services.py:214-217 and 222-225: every truthy name, trimmed,
\* is resolved in list order.  refs collects the resolved instances.
RECURSIVE resolve_names(_, _, _, _)
resolve_names(table, new, names, refs) ==
    IF names = <<>> THEN [new |-> new, refs |-> refs]
    ELSE IF Truthy(Head(names))
         THEN LET r == get_or_create_no_commit(table, new, strip(the(Head(names))))
              IN  resolve_names(table, r.new, Tail(names), Append(refs, r.ref))
         ELSE resolve_names(table, new, Tail(names), refs)

\* The loops of services.py:229-238 and 241-251: an entry whose organisation
\* name (field key) is falsy is skipped; the others resolve the organisation.
RECURSIVE resolve_entries_store_all(_, _, _, _, _)
resolve_entries_store_all(table, new, entries, key, refs) ==
    IF entries = <<>> THEN [new |-> new, refs |-> refs]
    ELSE IF Truthy(Head(entries)[key])
         THEN LET r == get_or_create_no_commit(table, new, strip(the(Head(entries)[key])))
              IN  resolve_entries_store_all(table, r.new, Tail(entries), key,
                                  Append(refs, [entry |-> Head(entries), ref |-> r.ref]))
         ELSE resolve_entries_store_all(table, new, Tail(entries), key,
                                  Append(refs, [entry |-> Head(entries), ref |-> 0]))

RECURSIVE resolve_entries(_, _, _, _, _)
resolve_entries(table, new, entries, key, refs) ==
    IF entries = <<>> THEN [new |-> new, refs |-> refs]
    ELSE IF Truthy(Head(entries)[key])
         THEN LET r == get_or_create_no_commit(table, new, strip(the(Head(entries)[key])))
              IN  resolve_entries(table, r.new, Tail(entries), key,
                                  Append(refs, [entry |-> Head(entries), ref |-> r.ref]))
         ELSE resolve_entries(table, new, Tail(entries), key, refs)

\* -------------------------------------------------------- candidate upsert
\* services.py:258  db.rollback(): the session's pending state is discarded
\* and its view is the committed database again.
rollback_omitted(dbv, pending) == pending

rollback(dbv, pending) == dbv

\* services.py:257-260: the except clause.  e is the exception's message.
Raise(dbv, pending, e) ==
    [raised |-> e, db |-> dbv, session |-> rollback(dbv, pending)]

\* services.py:191  not json_data.get('name')
name_missing_unchecked(json_data) == FALSE

name_missing(json_data) == ~TruthyStr(json_data.name)

\* services.py:194-204.  existing: the id of the candidate the query of line
\* 194 found, 0 when it found none; then a Candidate is staged.  The scalar
\* fields are overwritten from the record.
update_candidate_fields_keep_old(g, existing, json_data) ==
    LET old(field) == IF existing # 0 THEN g.candidates[existing][field] ELSE None
        new(field) == IF json_data[field] # None THEN json_data[field] ELSE old(field)
        row == [ name |-> json_data.name,
                 email |-> new("email"),
                 phone |-> new("phone"),
                 linkedin_url |-> new("linkedin_url"),
                 total_experience_years |-> new("total_experience_years"),
                 city |-> new("city") ]
    IN  [g EXCEPT !.candidates =
            IF existing # 0 THEN [@ EXCEPT ![existing] = row] ELSE Append(@, row)]

update_candidate_fields(g, existing, json_data) ==
    LET row == [ name |-> json_data.name,
                 email |-> json_data.email,
                 phone |-> json_data.phone,
                 linkedin_url |-> json_data.linkedin_url,
                 total_experience_years |-> json_data.total_experience_years,
                 city |-> json_data.city ]
    IN  [g EXCEPT !.candidates =
            IF existing # 0 THEN [@ EXCEPT ![existing] = row] ELSE Append(@, row)]

\* services.py:206-210.  The candidate's skill and certification links are
\* cleared and its Degree and Experience rows deleted.  cid is the id the
\* candidate has once flushed, id its candidate.id now (NoId while pending).
clear_old_relationships_keep(g, id, cid) == g

clear_old_relationships(g, id, cid) ==
        [g EXCEPT
            !.candidate_skills = {l \in @ : l[1] # cid},
            !.candidate_certifications = {l \in @ : l[1] # cid},
            !.degrees = DeleteWhere(@, LAMBDA d : d.candidate_id = id),
            !.experiences = DeleteWhere(@, LAMBDA x : x.candidate_id = id)]

\* services.py:213-218  skills: the names of the list.
link_skills(g, cid, skills) ==
    LET r == resolve_names(g.skills, <<>>, skills, <<>>)
    IN  [g EXCEPT !.skills = @ \o r.new,
                  !.candidate_skills = @ \cup {<<cid, ref>> : ref \in Range(r.refs)}]

\* services.py:221-226
link_certifications(g, cid, certifications) ==
    LET r == resolve_names(g.certifications, <<>>, certifications, <<>>)
    IN  [g EXCEPT !.certifications = @ \o r.new,
                  !.candidate_certifications = @ \cup {<<cid, ref>> : ref \in Range(r.refs)}]

\* services.py:229-238
add_degrees(g, cid, degrees) ==
    LET r == resolve_entries(g.colleges, <<>>, degrees, "college_name", <<>>)
    IN  [g EXCEPT !.colleges = @ \o r.new,
                  !.degrees = InsertAll(@,
                      [k \in 1..Len(r.refs) |->
                          [ candidate_id |-> cid,
                            college_id |-> r.refs[k].ref,
                            degree_name |-> r.refs[k].entry.degree_name,
                            passed_out_year |-> r.refs[k].entry.passed_out_year ]])]

\* services.py:241-251
add_experiences(g, cid, experience) ==
    LET r == resolve_entries(g.companies, <<>>, experience, "company_name", <<>>)
    IN  [g EXCEPT !.companies = @ \o r.new,
                  !.experiences = InsertAll(@,
                      [k \in 1..Len(r.refs) |->
                          [ candidate_id |-> cid,
                            company_id |-> r.refs[k].ref,
                            total_years |-> r.refs[k].entry.total_years,
                            role |-> r.refs[k].entry.role,
                            description |-> r.refs[k].entry.description ]])]

\* Iterating None (services.py:214, 222, 229, 241) raises TypeError.
NotIterable == "TypeError: 'NoneType' object is not iterable"

\* services.py:254  db.commit(): the flush inserts the pending rows and the
\* database checks its constraints; v is the constraint violated, "" if none.
\* After the commit the function ends (services.py:255) without a return
\* statement: what it returns is None.
commit(dbv, g, v) ==
    IF v # "" THEN Raise(dbv, g, "IntegrityError: " \o v)
    ELSE [raised |-> "", db |-> g, session |-> g, returned |-> None]

\* services.py:240-254
insert_experiences(dbv, g, cid, json_data) ==
    IF json_data.experience = None THEN Raise(dbv, g, NotIterable)
    ELSE commit(dbv, add_experiences(g, cid, the(json_data.experience)),
                ConstraintViolation(add_experiences(g, cid, the(json_data.experience))))

\* services.py:228-254
insert_degrees(dbv, g, cid, json_data) ==
    IF json_data.degrees = None THEN Raise(dbv, g, NotIterable)
    ELSE insert_experiences(dbv, add_degrees(g, cid, the(json_data.degrees)), cid, json_data)

\* services.py:220-254
insert_certifications(dbv, g, cid, json_data) ==
    IF json_data.certifications = None THEN Raise(dbv, g, NotIterable)
    ELSE insert_degrees(dbv, link_certifications(g, cid, the(json_data.certifications)),
                        cid, json_data)

\* services.py:212-254
insert_skills(dbv, g, cid, json_data) ==
    IF json_data.skills = None THEN Raise(dbv, g, NotIterable)
    ELSE insert_certifications(dbv, link_skills(g, cid, the(json_data.skills)), cid, json_data)

\* services.py:194-254.  existing: the id of the candidate the query of line
\* 194 found, 0 when it found none.
insert_candidate(dbv, sess, existing, json_data) ==
    insert_skills(dbv,
        clear_old_relationships(update_candidate_fields(sess, existing, json_data),
            IF existing # 0 THEN existing ELSE NoId,
            IF existing # 0 THEN existing ELSE Len(sess.candidates) + 1),
        IF existing # 0 THEN existing ELSE Len(sess.candidates) + 1,
        json_data)

\* services.py:186-260, the function app.py:105 calls as
\* services.insert_json_data_into_db(json_data, db).  dbv is the committed
\* database, sess the session's view of it (its transaction and its pending
\* objects).  The result: the exception raised ("" when none), the committed
\* database and the session's view afterwards.
insert_json_data_into_db(dbv, sess, json_data) ==
    IF name_missing(json_data)
    THEN Raise(dbv, sess, "ValueError: Name is required to create or update a candidate.")
    ELSE insert_candidate(dbv, sess,
                          First(sess.candidates, LAMBDA c : c.name = json_data.name),
                          json_data)

\* ---------------------------------------------------------------- analytics
\* services.py:172-173  value_counts() of the names of the rows of skills.
skill_counts(g) ==
    [n \in Range(g.skills) |-> Cardinality({i \in 1..Len(g.skills) : g.skills[i] = n})]

\* services.py:176-180  pd.cut(exp_years, bins, labels, right=False): the value
\* v lies in bucket k when bins[k] <= v < bins[k+1] and in none otherwise;
\* value_counts() counts every label.
bucket_of(v, k) == bins[k] <= v /\ v < bins[k + 1]

exp_distribution(g) ==
    LET exp_years == SelectSeq(
            [i \in 1..Len(g.candidates) |-> g.candidates[i].total_experience_years],
            LAMBDA y : y # None)
    IN  [k \in 1..Len(labels) |->
            Cardinality({i \in 1..Len(exp_years) : bucket_of(the(exp_years[i]), k)})]

\* services.py:169-185
get_analytics_data(g) ==
    [skill_distribution |-> skill_counts(g), experience_distribution |-> exp_distribution(g)]

\* ------------------------------------------------------ pipeline stages
\* A filename is its stem and its extension (os.path.splitext).
NoFilename == [stem |-> "", ext |-> ""]
FileNames == {NoFilename, [stem |-> "a", ext |-> ".pdf"], [stem |-> "b", ext |-> ".docx"]}

\* services.py:61  mimetypes.guess_type(filename)
guess_type(filename) ==
    CASE filename.ext = ".pdf"  -> "application/pdf"
      [] filename.ext = ".docx" ->
            "application/vnd.openxmlformats-officedocument.wordprocessingml.document"
      [] filename.ext = ".doc"  -> "application/msword"
      [] OTHER -> "None"

\* An uploaded document: whether the extraction library can read it, and the
\* number of characters of text it holds.
Documents ==
    {[readable |-> FALSE, chars |-> 0]} \cup
    {[readable |-> TRUE, chars |-> n] : n \in {0, MinTextLen - 1, MinTextLen}}

\* services.py:56-89.  The text is its length; None when there is none.
extract_text_from_file(filename, document) ==
    LET mime_type == guess_type(filename)
    IN  IF mime_type = "application/pdf"
        THEN IF ~document.readable THEN None
             ELSE IF document.chars = 0 THEN None
             ELSE Some(document.chars)
        ELSE IF mime_type =
                "application/vnd.openxmlformats-officedocument.wordprocessingml.document"
        THEN IF ~document.readable THEN None ELSE Some(document.chars)
        ELSE None

\* services.py:95-147.  reply is what the one chain.invoke returns: a record,
\* or None when it raises.  calls counts the invocations of the chain.
get_data_from_gemini_unguarded(resume_text, reply) == [calls |-> 1, result |-> reply]

get_data_from_gemini(resume_text, reply) ==
    IF resume_text = None \/ the(resume_text) = 0 \/ the(resume_text) < MinTextLen
    THEN [calls |-> 0, result |-> None]
    ELSE [calls |-> 1, result |-> reply]

\* ------------------------------------------------------------------ inputs
\* Reference-entity names as the parser may return them.
A   == <<"a">>
SpA == <<" ", "a">>
B   == <<"b">>
Sp  == <<" ">>
E   == <<>>

\* The scalar fields of ResumeModel (services.py:43-47).
Scalars ==
    { [email |-> None, phone |-> None, linkedin_url |-> None,
       total_experience_years |-> None, city |-> None],
      [email |-> Some("e1"), phone |-> Some("p1"), linkedin_url |-> Some("l1"),
       total_experience_years |-> Some(2), city |-> Some("c1")],
      [email |-> Some("e1"), phone |-> None, linkedin_url |-> Some("l1"),
       total_experience_years |-> Some(50), city |-> None] }

DegreeModel(college, degree, year) ==
    [college_name |-> college, degree_name |-> degree, passed_out_year |-> year]

ExperienceModel(company, years, role, description) ==
    [company_name |-> company, total_years |-> years, role |-> role,
     description |-> description]

\* The list fields of ResumeModel (services.py:48-51); a list may be null.
Relationships ==
    { [skills |-> Some(<<>>), certifications |-> Some(<<>>),
       degrees |-> Some(<<>>), experience |-> Some(<<>>)],
      [skills |-> Some(<<Some(A), Some(SpA), None>>),
       certifications |-> Some(<<Some(A), Some(A)>>),
       degrees |-> Some(<<DegreeModel(Some(A), Some("BSc"), Some(2020)),
                          DegreeModel(None, Some("MSc"), None),
                          DegreeModel(Some(SpA), Some("BSc"), Some(2020))>>),
       experience |-> Some(<<ExperienceModel(Some(A), Some(3), Some("dev"), None)>>)],
      [skills |-> Some(<<Some(B), Some(E), Some(Sp)>>),
       certifications |-> Some(<<Some(B)>>),
       degrees |-> Some(<<DegreeModel(Some(B), None, None),
                          DegreeModel(Some(Sp), Some("MSc"), None)>>),
       experience |-> Some(<<ExperienceModel(Some(B), None, Some("qa"), Some("d")),
                             ExperienceModel(Some(E), Some(1), Some("dev"), None)>>)],
      [skills |-> None, certifications |-> Some(<<Some(A)>>),
       degrees |-> Some(<<>>), experience |-> Some(<<>>)],
      [skills |-> Some(<<Some(B)>>), certifications |-> Some(<<Some(B)>>),
       degrees |-> Some(<<DegreeModel(Some(B), None, None)>>),
       experience |-> None] }

ResumeModel(n, s, r) ==
    [ name |-> n, email |-> s.email, phone |-> s.phone,
      linkedin_url |-> s.linkedin_url,
      total_experience_years |-> s.total_experience_years, city |-> s.city,
      skills |-> r.skills, certifications |-> r.certifications,
      degrees |-> r.degrees, experience |-> r.experience ]

\* The records the structured parser may return (services.py:41-51): every
\* combination under a name, and the relationships without a name.
Records ==
    {ResumeModel(n, s, r) : n \in {Some("n1"), Some("n2")}, s \in Scalars, r \in Relationships}
    \cup {ResumeModel(n, s, r) :
            n \in {None, Some("")},
            s \in {x \in Scalars : x.email # None /\ x.city # None},
            r \in Relationships}

\* Non-empty lists of at most n elements of S.
Lists(S, n) == UNION {[1..k -> S] : k \in 1..n}

\* ------------------------------------------------------------------- state
VARIABLES
    db,               \* the committed database (a graph)
    session,          \* the request's Session: its view of the database
    pc,               \* "idle", or "loop" inside upload_resumes
    files,            \* upload_resumes: the filenames of the batch
    i,                \* upload_resumes: the position of the loop
    processed_files,  \* upload_resumes: processed_files
    errors,           \* upload_resumes: errors
    runs,             \* upload_resumes: what each iteration's stages returned
    analytics,        \* the last answer of /api/analytics, None when there is none
    uploads,          \* the files of UPLOAD_FOLDER: final path |-> document
    download,         \* the last answer of /api/resume/{id}, None when there is none
    requests          \* the concurrent upload requests: each one's position and Session

vars == <<db, session, pc, files, i, processed_files, errors, runs, analytics,
          uploads, download, requests>>

\* Two upload requests served concurrently (app.py:62 is async and awaits the
\* upsert in the threadpool, app.py:104), each with the Session get_db gave it.
Requests == {1, 2}

\* A request that has not arrived: no record, no Candidate found or loaded,
\* nothing reported.
NoRequest ==
    [ pc |-> "idle", json_data |-> None, found |-> 0, loaded |-> None,
      processed_files |-> <<>>, errors |-> <<>> ]

Init ==
    /\ db = EmptyGraph
    /\ session = EmptyGraph
    /\ pc = "idle"
    /\ files = <<>>
    /\ i = 1
    /\ processed_files = <<>>
    /\ errors = <<>>
    /\ runs = <<>>
    /\ analytics = None
    /\ uploads = <<>>
    /\ download = None
    /\ requests = [r \in Requests |-> NoRequest]

\* app.py:61-64 and db.py:115-117: a request arrives with its files and a
\* fresh Session.
upload_resumes ==
    /\ pc = "idle"
    /\ \E fs \in Lists(FileNames, MaxFiles) : files' = fs
    /\ pc' = "loop"
    /\ i' = 1
    /\ processed_files' = <<>>
    /\ errors' = <<>>
    /\ runs' = <<>>
    /\ session' = db
    /\ analytics' = None
    /\ download' = None
    /\ UNCHANGED <<db, uploads, requests>>

\* An error message of app.py:79, 85, 98, 119: its fixed text, the filename it
\* names and the exception's message.
Message(text, filename, e) == [text |-> text, filename |-> filename, e |-> e]

\* What the stages of one iteration returned: whether the temporary file was
\* written, the extracted text (None when extraction was not reached or
\* returned None), the calls of the parsing service, whether it returned a
\* record, and how the upsert ended (raised: its exception's message).
Run(filename, saved, resume_text, parsed, raised) ==
    [ filename |-> filename,
      saved |-> saved,
      resume_text |-> resume_text,
      calls |-> parsed.calls,
      parsed |-> parsed.result # None,
      upsert |-> raised ]

\* get_data_from_gemini and insert_json_data_into_db not reached.
NotCalled == [calls |-> 0, result |-> None]
NotAttempted == "not attempted"

\* app.py:79-80, 85-87, 98-100: errors.append(...); continue
fail_file_abort(message, run) ==
    /\ errors' = Append(errors, message)
    /\ runs' = Append(runs, run)
    /\ pc' = "idle"
    /\ UNCHANGED <<i, db, session, files, processed_files, analytics, uploads, download, requests>>

fail_file(message, run) ==
    /\ errors' = Append(errors, message)
    /\ runs' = Append(runs, run)
    /\ i' = i + 1
    /\ UNCHANGED <<db, session, pc, files, processed_files, analytics, uploads, download, requests>>

\* app.py:116-119: the two ends of the try around the upsert; raised is the
\* exception's message, "" when the upsert returned.
after_insert_append_first(file, raised) ==
    /\ processed_files' = Append(processed_files, file)
    /\ IF raised # ""
       THEN errors' = Append(errors, Message("DB insert error for", file, raised))
       ELSE UNCHANGED errors

after_insert(file, raised) ==
    IF raised # ""
    THEN /\ errors' = Append(errors, Message("DB insert error for", file, raised))
         /\ UNCHANGED processed_files
    ELSE /\ processed_files' = Append(processed_files, file)
         /\ UNCHANGED errors

\* A document of UPLOAD_FOLDER: the content of the file uploaded as file.
Document(file) == [filename |-> file]

\* app.py:108-110 and 226: "candidate_{candidate_id}{ext}".  candidate_id is an
\* Optional[int]: None formats as "None", never as a number.
FinalPath(candidate_id, ext) == [candidate_id |-> candidate_id, ext |-> ext]

\* app.py:108-115: what stands at the final path is removed and the temporary
\* file renamed to it.
move_to_final_path(folder, candidate_id, file, document) ==
    [p \in (DOMAIN folder) \cup {FinalPath(candidate_id, file.ext)} |->
        IF p = FinalPath(candidate_id, file.ext) THEN document ELSE folder[p]]

\* app.py:102-120.  upsert: what insert_json_data_into_db did.  The move of
\* the temporary file to its final path (app.py:108-115) follows the upsert
\* inside the try; within one request it finds the file this iteration saved
\* and removes what stands at the final path first.
insert_file(file, resume_text, parsed, upsert) ==
    /\ db' = upsert.db
    /\ session' = upsert.session
    /\ uploads' = IF upsert.raised = ""
                  THEN move_to_final_path(uploads, upsert.returned, file, Document(file))
                  ELSE uploads
    /\ after_insert(file, upsert.raised)
    /\ runs' = Append(runs, Run(file, TRUE, resume_text, parsed,
                                IF upsert.raised = "" THEN "committed" ELSE "raised"))
    /\ i' = i + 1
    /\ UNCHANGED <<pc, files, analytics, download, requests>>

\* app.py:89-120.  parsed: what get_data_from_gemini returned.
parse_file(file, resume_text, parsed) ==
    IF parsed.result = None
    THEN fail_file(Message("No parsed data for", file, ""),
                   Run(file, TRUE, resume_text, parsed, NotAttempted))
    ELSE insert_file(file, resume_text, parsed,
                     insert_json_data_into_db(db, session, the(parsed.result)))

\* app.py:82-120.  resume_text: what extract_text_from_file returned.
extract_file(file, resume_text, reply) ==
    IF resume_text = None \/ the(resume_text) = 0
    THEN fail_file(Message("Could not extract text from", file, ""),
                   Run(file, TRUE, resume_text, NotCalled, NotAttempted))
    ELSE parse_file(file, resume_text, get_data_from_gemini(resume_text, reply))

\* app.py:66-120, one iteration of the loop.  saved: whether the temporary
\* file could be written; document: the uploaded document; reply: what the
\* parsing service returns if it is called.
process_file(file, saved, document, reply) ==
    IF file = NoFilename
    THEN /\ i' = i + 1
         /\ UNCHANGED <<db, session, pc, files, processed_files, errors, runs, analytics,
                        uploads, download, requests>>
    ELSE IF ~saved
    THEN fail_file(Message("Could not save", file, "OSError"),
                   Run(file, FALSE, None, NotCalled, NotAttempted))
    ELSE extract_file(file, extract_text_from_file(file, document), reply)

\* What the environment decides for one file.  A reply is read only when the
\* file was saved and its text is long enough for the service to be called.
Environments ==
    {[saved |-> FALSE, document |-> d, reply |-> None] :
        d \in {[readable |-> TRUE, chars |-> MinTextLen]}}
    \cup {[saved |-> TRUE, document |-> d, reply |-> None] : d \in Documents}
    \cup {[saved |-> TRUE, document |-> [readable |-> TRUE, chars |-> MinTextLen],
           reply |-> Some(r)] : r \in Records}

ProcessFile ==
    /\ pc = "loop"
    /\ i <= Len(files)
    /\ \E env \in Environments : process_file(files[i], env.saved, env.document, env.reply)

\* app.py:122-126 and db.py:120-121: after the last file the summary
\* (processed_files, errors) is returned, the Session closed and the
\* request's frame gone.
Return ==
    /\ pc = "loop"
    /\ i > Len(files)
    /\ pc' = "idle"
    /\ session' = db
    /\ files' = <<>>
    /\ i' = 1
    /\ processed_files' = <<>>
    /\ errors' = <<>>
    /\ runs' = <<>>
    /\ UNCHANGED <<db, analytics, uploads, download, requests>>

\* app.py:203-205  GET /api/analytics.  It reads the committed database only,
\* so it is served here between uploads.
get_analytics ==
    /\ pc = "idle"
    /\ analytics = None
    /\ analytics' = Some(get_analytics_data(db))
    /\ UNCHANGED <<db, session, pc, files, i, processed_files, errors, runs, uploads, download, requests>>

\* app.py:225
Extensions == <<".pdf", ".docx">>

\* app.py:221-243: the first extension for which "candidate_{candidate_id}{ext}"
\* exists is served, 404 when there is none.
resume_file_response(folder, candidate_id) ==
    LET found == First(Extensions,
                       LAMBDA ext : FinalPath(Some(candidate_id), ext) \in DOMAIN folder)
    IN  IF found = 0
        THEN [status |-> 404, detail |-> "Resume file not found"]
        ELSE [status |-> 200, ext |-> Extensions[found],
              document |-> folder[FinalPath(Some(candidate_id), Extensions[found])]]

\* GET /api/resume/{candidate_id}, for the id of a stored candidate or the
\* next id.  It reads UPLOAD_FOLDER only, so it is served here between uploads.
get_resume_file ==
    /\ pc = "idle"
    /\ download = None
    /\ \E candidate_id \in 1..(Len(db.candidates) + 1) :
        download' = Some([candidate_id |-> candidate_id,
                          response |-> resume_file_response(uploads, candidate_id)])
    /\ UNCHANGED <<db, session, pc, files, i, processed_files, errors, runs, analytics,
                   uploads, requests>>

Next == upload_resumes \/ ProcessFile \/ Return \/ get_analytics \/ get_resume_file

Spec == Init /\ [][Next]_vars

\* ---------------------------------------------------- concurrent requests
\* Two upload requests at once, each with one file that was saved, extracted
\* and parsed (app.py:66-100), interleaved at the steps of the upsert: the
\* query by name (services.py:194), the staging of the Candidate and its
\* fields in the request's own Session (services.py:195-251), and the commit
\* (services.py:254).  The database is read committed: a query sees what is
\* committed when it runs.  The records carry scalar fields only, so the
\* relationship steps of the upsert change nothing.
RaceFiles == <<[stem |-> "a", ext |-> ".pdf"], [stem |-> "b", ext |-> ".docx"]>>

RaceRecords ==
    {ResumeModel(n, s, r) :
        n \in {Some("n1"), Some("n2")},
        s \in Scalars,
        r \in {x \in Relationships :
                  /\ x.skills = Some(<<>>) /\ x.certifications = Some(<<>>)
                  /\ x.degrees = Some(<<>>) /\ x.experience = Some(<<>>)}}

\* app.py:62-105: the request has its record and calls the upsert.
race_begin(r) ==
    /\ requests[r].pc = "idle"
    /\ \E json_data \in RaceRecords :
        requests' = [requests EXCEPT ![r] =
            [NoRequest EXCEPT !.pc = "find", !.json_data = Some(json_data)]]
    /\ UNCHANGED <<db, uploads>>

\* services.py:194: the Candidate of that name as committed now, loaded into
\* the Session with its fields.
race_find(r) ==
    /\ requests[r].pc = "find"
    /\ requests' = [requests EXCEPT ![r] =
            [@ EXCEPT !.pc = "insert",
                      !.found = First(db.candidates,
                                      LAMBDA c : c.name = the(requests[r].json_data).name),
                      !.loaded = IF First(db.candidates,
                                    LAMBDA c : c.name = the(requests[r].json_data).name) = 0
                                 THEN None
                                 ELSE Some(db.candidates[First(db.candidates,
                                    LAMBDA c : c.name = the(requests[r].json_data).name)])]]
    /\ UNCHANGED <<db, uploads>>

\* services.py:195-251: a Candidate is staged when none was found, and the
\* fields are assigned; all of it is pending in the request's Session.
race_insert(r) ==
    /\ requests[r].pc = "insert"
    /\ requests' = [requests EXCEPT ![r].pc = "commit"]
    /\ UNCHANGED <<db, uploads>>

\* The flush of services.py:254 on the database g as committed now: the
\* staged Candidate is inserted, or the found row is updated in the fields
\* whose assigned value differs from the value loaded.
flush_candidate(g, found, loaded, json_data) ==
    IF found = 0
    THEN update_candidate_fields(g, 0, json_data)
    ELSE [g EXCEPT !.candidates[found] =
            [f \in DOMAIN @ |->
                IF f # "name" /\ json_data[f] # the(loaded)[f] THEN json_data[f] ELSE @[f]]]

\* app.py:116-119 for the request's file.  The commit or the rollback has
\* expired what the Session had loaded.
race_report(request, file, raised) ==
    IF raised # ""
    THEN [request EXCEPT !.pc = "done", !.found = 0, !.loaded = None,
            !.errors = Append(@, Message("DB insert error for", file, raised))]
    ELSE [request EXCEPT !.pc = "done", !.found = 0, !.loaded = None,
            !.processed_files = Append(@, file)]

\* services.py:254-260 and app.py:104-120.  upsert: how the commit ended.
race_end(r, upsert) ==
    /\ db' = upsert.db
    /\ requests' = [requests EXCEPT ![r] = race_report(@, RaceFiles[r], upsert.raised)]
    /\ uploads' = IF upsert.raised = ""
                  THEN move_to_final_path(uploads, upsert.returned, RaceFiles[r],
                                          Document(RaceFiles[r]))
                  ELSE uploads

race_flush(r, g) == race_end(r, commit(db, g, ConstraintViolation(g)))

race_commit(r) ==
    /\ requests[r].pc = "commit"
    /\ race_flush(r, flush_candidate(db, requests[r].found, requests[r].loaded,
                                     the(requests[r].json_data)))

\* app.py:122-126: the request returns its summary.
race_return(r) ==
    /\ requests[r].pc = "done"
    /\ requests' = [requests EXCEPT ![r] = NoRequest]
    /\ UNCHANGED <<db, uploads>>

\* The state of the request served alone, untouched here.
Sequential == <<session, pc, files, i, processed_files, errors, runs, analytics, download>>

RaceBegin == UNCHANGED Sequential /\ \E r \in Requests : race_begin(r)
RaceFind == UNCHANGED Sequential /\ \E r \in Requests : race_find(r)
RaceInsert == UNCHANGED Sequential /\ \E r \in Requests : race_insert(r)
RaceCommit == UNCHANGED Sequential /\ \E r \in Requests : race_commit(r)
RaceReturn == UNCHANGED Sequential /\ \E r \in Requests : race_return(r)

NextRace == RaceBegin \/ RaceFind \/ RaceInsert \/ RaceCommit \/ RaceReturn

SpecRace == Init /\ [][NextRace]_vars

\* ------------------------------------------------------------------ views
\* What /api/candidate/{id} shows of the candidate called name (app.py:160-193),
\* with the number of stored rows behind each degree and experience; the
\* empty set when no candidate has that name.
CandidateView(g, name) ==
    { [ email |-> g.candidates[c].email,
        phone |-> g.candidates[c].phone,
        linkedin_url |-> g.candidates[c].linkedin_url,
        total_experience_years |-> g.candidates[c].total_experience_years,
        city |-> g.candidates[c].city,
        skills |-> {g.skills[l[2]] : l \in {x \in g.candidate_skills : x[1] = c}},
        certifications |->
            {g.certifications[l[2]] : l \in {x \in g.candidate_certifications : x[1] = c}},
        degrees |->
            { <<g.colleges[d.college_id], d.degree_name, d.passed_out_year, g.degrees[d]>> :
                d \in {x \in DOMAIN g.degrees : x.candidate_id = c} },
        experiences |->
            { <<g.companies[x.company_id], x.total_years, x.role, x.description,
                g.experiences[x]>> :
                x \in {y \in DOMAIN g.experiences : y.candidate_id = c} } ]
      : c \in {k \in 1..Len(g.candidates) : g.candidates[k].name = name} }

\* The same view as the record describes it: the trimmed names of the lists'
\* truthy entries, and each degree and experience that names its organisation
\* with the number of list entries that read the same.
NamesOf(list) == {strip(the(n)) : n \in {x \in Range(list) : Truthy(x)}}

DegreesOf(list) ==
    LET kept == {k \in 1..Len(list) : Truthy(list[k].college_name)}
        row(k) == <<strip(the(list[k].college_name)), list[k].degree_name,
                    list[k].passed_out_year>>
    IN  { <<row(k)[1], row(k)[2], row(k)[3], Cardinality({j \in kept : row(j) = row(k)})>> :
            k \in kept }

ExperiencesOf(list) ==
    LET kept == {k \in 1..Len(list) : Truthy(list[k].company_name)}
        row(k) == <<strip(the(list[k].company_name)), list[k].total_years, list[k].role,
                    list[k].description>>
    IN  { <<row(k)[1], row(k)[2], row(k)[3], row(k)[4],
            Cardinality({j \in kept : row(j) = row(k)})>> : k \in kept }

RecordView(json_data) ==
    [ email |-> json_data.email,
      phone |-> json_data.phone,
      linkedin_url |-> json_data.linkedin_url,
      total_experience_years |-> json_data.total_experience_years,
      city |-> json_data.city,
      skills |-> NamesOf(the(json_data.skills)),
      certifications |-> NamesOf(the(json_data.certifications)),
      degrees |-> DegreesOf(the(json_data.degrees)),
      experiences |-> ExperiencesOf(the(json_data.experience)) ]

ReferenceRows(g) == <<g.skills, g.certifications, g.companies, g.colleges>>

Stored(g, name) == \E k \in 1..Len(g.candidates) : g.candidates[k].name = name

\* The number of elements of seq satisfying Test.
Count(seq, Test(_)) == Cardinality({k \in 1..Len(seq) : Test(seq[k])})

\* ------------------------------------------------------------------ claims
\* Every database the program reaches is the database of some state between
\* two requests (pc = "idle"): the claims about one upsert on any stored
\* graph are stated there, for every record.

\* C1: upserting the same named record twice in a row is idempotent.  After
\* the second run the candidate's scalar fields and relationship sets and the
\* reference-entity rows are what they were after the first, and the second
\* run ends as the first did.
TwiceSame(r1, r2, name) ==
    /\ (r2.raised = "") = (r1.raised = "")
    /\ CandidateView(r2.db, name) = CandidateView(r1.db, name)
    /\ ReferenceRows(r2.db) = ReferenceRows(r1.db)

UpsertTwice(r1, json_data) ==
    TwiceSame(r1, insert_json_data_into_db(r1.db, r1.session, json_data), json_data.name)

C1_UpsertIdempotent ==
    pc = "idle" =>
        \A json_data \in Records :
            TruthyStr(json_data.name) =>
                UpsertTwice(insert_json_data_into_db(db, session, json_data), json_data)

\* The stored graph is the result of upserting a record with skills, degrees
\* and experiences, and upserting that record again commits.
AlreadyUpserted(r, json_data) ==
    /\ r.raised = ""
    /\ r.db = db
    /\ CandidateView(db, json_data.name) = {RecordView(json_data)}

C1_Witness ==
    /\ pc = "idle"
    /\ \E json_data \in Records :
        /\ TruthyStr(json_data.name)
        /\ json_data.skills # None /\ json_data.experience # None
        /\ Len(the(json_data.skills)) > 1
        /\ Len(the(json_data.degrees)) > 1
        /\ AlreadyUpserted(insert_json_data_into_db(db, session, json_data), json_data)

\* C2: an upsert that commits for a candidate already stored leaves the
\* candidate with exactly the skills, certifications, degrees and experiences
\* of the new record, and nothing of the earlier ones.
Replaced(r, json_data) ==
    r.raised = "" => CandidateView(r.db, json_data.name) = {RecordView(json_data)}

C2_FullReplace ==
    pc = "idle" =>
        \A json_data \in Records :
            (TruthyStr(json_data.name) /\ Stored(db, json_data.name)) =>
                Replaced(insert_json_data_into_db(db, session, json_data), json_data)

\* A candidate with skills is stored beside a skill that no candidate is
\* linked to any more: its links were replaced.
C2_Witness ==
    /\ pc = "idle"
    /\ \E c \in 1..Len(db.candidates) : \E l \in db.candidate_skills : l[1] = c
    /\ \E k \in 1..Len(db.skills) : \A l \in db.candidate_skills : l[2] # k
    /\ \E d \in DOMAIN db.degrees : d.candidate_id = 1

\* C3: no two Skill, Certification, Company or College rows share a name, and
\* no upsert failed on the uniqueness of a reference-entity name (the resolver
\* never staged a second instance of a name).
ReferenceConflicts ==
    { "IntegrityError: skills.name not unique",
      "IntegrityError: certifications.name not unique",
      "IntegrityError: colleges.name not unique",
      "IntegrityError: companies.name not unique" }

C3_ReferenceNamesUnique ==
    /\ Unique(db.skills) /\ Unique(db.certifications)
    /\ Unique(db.companies) /\ Unique(db.colleges)
    /\ \A k \in 1..Len(errors) : errors[k].e \notin ReferenceConflicts

\* Two upserts of one batch committed records that each name the skill "a"
\* twice ("a" and " a") and the certification "a" twice; both candidates are
\* linked to the one row.
C3_Witness ==
    /\ pc = "loop"
    /\ Len(processed_files) = 2
    /\ \E k \in 1..Len(db.skills) :
        /\ db.skills[k] = A
        /\ {<<1, k>>, <<2, k>>} \subseteq db.candidate_skills
    /\ \E k \in 1..Len(db.certifications) :
        /\ db.certifications[k] = A
        /\ {<<1, k>>, <<2, k>>} \subseteq db.candidate_certifications

\* C4: a record without a name is rejected and nothing is written: no stored
\* Candidate has an absent or empty name, and on every stored graph the upsert
\* of every such record raises and leaves the database and the session as
\* they were.
Rejected(r) == r.raised # "" /\ r.db = db /\ r.session = session

C4_MissingNameRejected ==
    /\ \A c \in 1..Len(db.candidates) : TruthyStr(db.candidates[c].name)
    /\ pc = "idle" =>
        \A json_data \in Records :
            ~TruthyStr(json_data.name) =>
                Rejected(insert_json_data_into_db(db, session, json_data))

\* A batch recorded the rejection of a nameless record while candidates are
\* stored.
C4_Witness ==
    /\ pc = "loop"
    /\ \E k \in 1..Len(errors) :
        errors[k].e = "ValueError: Name is required to create or update a candidate."
    /\ Len(db.candidates) > 0
    /\ Len(processed_files) > 0

\* C5: the upsert is atomic.  The session holds nothing uncommitted between
\* two upserts; a step that records an error leaves the stored graph as it
\* was; and the stored graph changes only in a step that reports its file as
\* processed.
C5_UpsertAtomic ==
    /\ [](session = db)
    /\ [][Len(errors') > Len(errors) => db' = db]_vars
    /\ [][db' # db => processed_files' # processed_files /\ errors' = errors]_vars

\* In one batch an upsert failed on the uniqueness of the email at commit and
\* the next upsert committed.
C5_Witness ==
    /\ pc = "loop"
    /\ Len(runs) = 2
    /\ runs[1].upsert = "raised"
    /\ errors[1].e = "IntegrityError: candidates.email not unique"
    /\ runs[2].upsert = "committed"

\* C6: a failure on one file never aborts the batch.  The request ends only
\* after its last file; while files remain the next one can be processed, and
\* after the last the summary can be returned; every file before the loop's
\* position was taken through the pipeline; and every file that failed is
\* named by a message of errors.
RunFailed(run) == run.upsert # "committed"

FilesTaken == SelectSeq(SubSeq(files, 1, i - 1), LAMBDA f : f # NoFilename)

C6_BatchContinues ==
    /\ [][pc = "loop" =>
            \/ i <= Len(files) /\ pc' = "loop" /\ i' = i + 1
            \/ i > Len(files) /\ pc' = "idle"]_vars
    /\ [](pc = "loop" =>
            /\ i \in 1..(Len(files) + 1)
            /\ i <= Len(files) => ENABLED ProcessFile
            /\ i > Len(files) => ENABLED Return
            /\ [k \in 1..Len(runs) |-> runs[k].filename] = FilesTaken
            /\ \A k \in 1..Len(runs) :
                RunFailed(runs[k]) =>
                    \E m \in 1..Len(errors) : errors[m].filename = runs[k].filename)

\* The first of two differently named files failed at extraction, the second
\* was processed, and the summary about to be returned names the first.
C6_Witness ==
    /\ pc = "loop"
    /\ Len(files) = 2 /\ i = 3
    /\ files[1] # files[2]
    /\ Len(runs) = 2
    /\ runs[1].resume_text = None /\ runs[1].saved
    /\ runs[2].upsert = "committed"
    /\ errors = <<Message("Could not extract text from", files[1], "")>>
    /\ processed_files = <<files[2]>>

\* C7: every file with a non-empty filename is reported exactly once: in
\* processed_files if and only if extraction returned text, the parser
\* returned a record and the upsert committed, and by one message of errors
\* otherwise.  Stated per filename, since a batch may carry a name twice.
RunSucceeded(run) ==
    /\ run.resume_text # None /\ the(run.resume_text) > 0
    /\ run.parsed
    /\ run.upsert = "committed"

C7_SummaryExact ==
    /\ Len(runs) = Len(FilesTaken)
    /\ Len(processed_files) + Len(errors) = Len(runs)
    /\ \A f \in FileNames :
        /\ Count(processed_files, LAMBDA p : p = f)
             = Count(runs, LAMBDA r : r.filename = f /\ RunSucceeded(r))
        /\ Count(errors, LAMBDA m : m.filename = f)
             = Count(runs, LAMBDA r : r.filename = f /\ ~RunSucceeded(r))

\* A batch of two files with the same name: the first upsert raised, the
\* second committed.
C7_Witness ==
    /\ pc = "loop"
    /\ Len(files) = 2 /\ i = 3
    /\ files[1] = files[2]
    /\ runs[1].upsert = "raised"
    /\ runs[2].upsert = "committed"
    /\ Len(errors) = 1 /\ Len(processed_files) = 1

\* C8 (the claim as stated): the experience histogram counts every candidate
\* with a non-null total_experience_years in exactly one of [0,2), [2,5),
\* [5,10), [10,infinity), so the counts sum to the number of such candidates.
ExperienceYears ==
    {c \in 1..Len(db.candidates) : db.candidates[c].total_experience_years # None}

InRange(c, lo, hi) ==
    /\ lo <= the(db.candidates[c].total_experience_years)
    /\ the(db.candidates[c].total_experience_years) < hi

FromTen(c) == 10 <= the(db.candidates[c].total_experience_years)

HistogramAsClaimed(h) ==
    /\ h[1] = Cardinality({c \in ExperienceYears : InRange(c, 0, 2)})
    /\ h[2] = Cardinality({c \in ExperienceYears : InRange(c, 2, 5)})
    /\ h[3] = Cardinality({c \in ExperienceYears : InRange(c, 5, 10)})
    /\ h[4] = Cardinality({c \in ExperienceYears : FromTen(c)})
    /\ h[1] + h[2] + h[3] + h[4] = Cardinality(ExperienceYears)

C8_ExperienceHistogram ==
    analytics # None => HistogramAsClaimed(the(analytics).experience_distribution)

\* C9 (the claim as stated): a skill linked to k >= 1 candidates is reported
\* with count k.
SkillLinks(n) == Cardinality({l \in db.candidate_skills : db.skills[l[2]] = n})

SkillsAsClaimed(h) ==
    \A n \in DOMAIN h : SkillLinks(n) >= 1 => h[n] = SkillLinks(n)

C9_SkillHistogram ==
    analytics # None => SkillsAsClaimed(the(analytics).skill_distribution)

\* C10: for each file the parsing service is called at most once; it is not
\* called when extraction returned no text or fewer than MinTextLen
\* characters, and then the file is recorded as an error and no upsert is
\* attempted.
TooShort(run) == run.resume_text = None \/ the(run.resume_text) < MinTextLen

C10_AtMostOneCall ==
    \A k \in 1..Len(runs) :
        /\ runs[k].calls <= 1
        /\ TooShort(runs[k]) =>
            /\ runs[k].calls = 0
            /\ runs[k].upsert = NotAttempted
            /\ \E m \in 1..Len(errors) : errors[m].filename = runs[k].filename
            /\ Count(processed_files, LAMBDA p : p = runs[k].filename)
                 = Count(runs, LAMBDA r : r.filename = runs[k].filename /\ RunSucceeded(r))

\* One file of the batch had text, but less than MinTextLen characters, and
\* for another the service was called once.
C10_Witness ==
    /\ pc = "loop"
    /\ Len(runs) = 2
    /\ runs[1].resume_text = Some(MinTextLen - 1)
    /\ runs[1].calls = 0
    /\ runs[2].calls = 1

\* C11 (the claim as stated): every document of UPLOAD_FOLDER stands under a
\* path keyed by the id of a stored candidate; every stored candidate (each was
\* created by a file processed successfully) has a document under its id; and
\* a download for a stored candidate is answered with a document.
CandidateIds == {Some(c) : c \in 1..Len(db.candidates)}

Served(d) ==
    Some(d.candidate_id) \in CandidateIds =>
        /\ d.response.status = 200
        /\ d.response.document \in {uploads[p] : p \in DOMAIN uploads}

C11_DocumentRetained ==
    /\ \A p \in DOMAIN uploads : p.candidate_id \in CandidateIds
    /\ \A c \in CandidateIds : \E ext \in Range(Extensions) : FinalPath(c, ext) \in DOMAIN uploads
    /\ download # None => Served(the(download))

\* C12: an upsert that commits leaves the candidate's email, phone, linkedin
\* URL, total experience years and city equal to the record's, a null of the
\* record included: nothing of the stored values is kept.
ScalarFields == {"email", "phone", "linkedin_url", "total_experience_years", "city"}

Overwritten(r, json_data) ==
    r.raised = "" =>
        /\ Stored(r.db, json_data.name)
        /\ \A c \in 1..Len(r.db.candidates) :
                r.db.candidates[c].name = json_data.name =>
                    \A f \in ScalarFields : r.db.candidates[c][f] = json_data[f]

C12_ScalarsOverwritten ==
    pc = "idle" =>
        \A json_data \in Records :
            TruthyStr(json_data.name) =>
                Overwritten(insert_json_data_into_db(db, session, json_data), json_data)

\* A candidate is stored with a phone and a city, and the upsert of a record
\* of its name without them commits.
Cleared(r, json_data) ==
    /\ r.raised = ""
    /\ \E c \in 1..Len(db.candidates) :
        /\ db.candidates[c].name = json_data.name
        /\ db.candidates[c].phone # None /\ db.candidates[c].city # None
        /\ r.db.candidates[c].phone = None /\ r.db.candidates[c].city = None

C12_Witness ==
    /\ pc = "idle"
    /\ \E json_data \in Records :
        /\ TruthyStr(json_data.name)
        /\ json_data.phone = None /\ json_data.city = None
        /\ json_data.email # None
        /\ Cleared(insert_json_data_into_db(db, session, json_data), json_data)

\* C13: a degree entry without a college name and an experience entry without
\* a company name are skipped and do not fail the upsert.  Every stored Degree
\* references a stored College and every stored Experience a stored Company;
\* and on every stored graph the upsert of a named record with all its lists
\* fails on nothing but a candidate constraint and, when it commits, stores
\* for the candidate as many degrees and experiences as there are entries
\* naming their organisation (a name that is neither null nor empty).
RowsOf(table, c) == BagCardinality(DeleteWhere(table, LAMBDA row : row.candidate_id # c))

Named(list, key) == Count(list, LAMBDA entry : Truthy(entry[key]))

CandidateConflicts ==
    {"", "IntegrityError: candidates.email not unique",
         "IntegrityError: candidates.name not unique"}

StoredNamed(r, json_data) ==
    /\ r.raised \in CandidateConflicts
    /\ r.raised = "" =>
        \A c \in 1..Len(r.db.candidates) :
            r.db.candidates[c].name = json_data.name =>
                /\ RowsOf(r.db.degrees, c) = Named(the(json_data.degrees), "college_name")
                /\ RowsOf(r.db.experiences, c) = Named(the(json_data.experience), "company_name")

AllLists(json_data) ==
    /\ json_data.skills # None /\ json_data.certifications # None
    /\ json_data.degrees # None /\ json_data.experience # None

SkippedSome(r, json_data, table, field, key) ==
    /\ r.raised = "" /\ r.db = db
    /\ Named(the(json_data[field]), key) \in 1..(Len(the(json_data[field])) - 1)
    /\ \E c \in 1..Len(db.candidates) :
        /\ db.candidates[c].name = json_data.name
        /\ RowsOf(db[table], c) = Named(the(json_data[field]), key)

NonEmptyNames(table) == \A k \in 1..Len(table) : strip(table[k]) # <<>>

C14_NoEmptyNames ==
    /\ NonEmptyNames(db.skills) /\ NonEmptyNames(db.certifications)
    /\ NonEmptyNames(db.companies) /\ NonEmptyNames(db.colleges)

\* C15: under every interleaving of the find, insert and commit steps of two
\* concurrent requests, no two stored Candidate rows share a name.  A request
\* that commits is reported as processed only if it did not lose the race (it
\* had found the row, or no row of the name is stored yet), and then it
\* updates the row it found without adding one; otherwise it fails, leaves
\* the database and the upload folder as they were, and is reported by one
\* error naming its file.
UniqueNames(g) ==
    \A c1, c2 \in 1..Len(g.candidates) :
        g.candidates[c1].name = g.candidates[c2].name => c1 = c2

Commits(r) == requests[r].pc = "commit" /\ requests'[r].pc = "done"

LostRace(r) ==
    requests[r].found = 0 /\ Stored(db, the(requests[r].json_data).name)

WonOrUpdated(r) ==
    /\ ~LostRace(r)
    /\ requests'[r].processed_files = <<RaceFiles[r]>> /\ requests'[r].errors = <<>>
    /\ Stored(db', the(requests[r].json_data).name)
    /\ requests[r].found # 0 => Len(db'.candidates) = Len(db.candidates)

FailedAndRolledBack(r) ==
    /\ requests'[r].processed_files = <<>>
    /\ Len(requests'[r].errors) = 1
    /\ requests'[r].errors[1].filename = RaceFiles[r]
    /\ db' = db /\ uploads' = uploads

C15_NamesUniqueUnderRace ==
    /\ [](UniqueNames(db))
    /\ [][\A r \in Requests : Commits(r) => WonOrUpdated(r) \/ FailedAndRolledBack(r)]_vars

\* Both requests carried the name n1 and found no row of it; the first one's
\* commit stored the row and the second one's failed on the name and was
\* reported as an error.
C15_Witness ==
    /\ requests[1].pc = "done" /\ requests[2].pc = "done"
    /\ the(requests[1].json_data).name = the(requests[2].json_data).name
    /\ requests[1].processed_files = <<RaceFiles[1]>>
    /\ Len(requests[2].errors) = 1
    /\ requests[2].errors[1].e = "IntegrityError: candidates.name not unique"
    /\ Len(db.candidates) = 1
    /\ db.candidates[1].name = the(requests[1].json_data).name

====
